---------------------------- MODULE Spec2Model ----------------------------
(***************************************************************************)
(* A model of abc-rs: the task scheduler (src/src/task.rs), the population *)
(* slots (src/src/candidate.rs) and the concurrent hive (src/src/hive.rs). *)
(*                                                                         *)
(* Fitness values (f64 in the code) are modelled by the naturals           *)
(* 0..MaxFit; the collaborator's make / explore / evaluate_fitness are     *)
(* nondeterministic draws from that range.                                 *)
(***************************************************************************)
EXTENDS Integers, Sequences, FiniteSets

(***************************************************************************)
(* Bounds of the model.                                                    *)
(***************************************************************************)
\* stand-alone scheduler (SpecTG)
TGMaxWorkers == 3
TGMaxObservers == 2
TGMaxRounds == 2
MaxGather == 12
\* the hive (Spec, FairSpec)
MaxWorkers == 2
MaxObservers == 1
MaxRetries == 1
MaxThreads == 2
MaxFit == 2
MaxRounds == 1
MaxRuns == 2
MaxPulls == 3
\* stand-alone WorkingCandidate (SpecWC)
MaxWCRetries == 3
MaxDepletes == 5
\* SpecRank
MaxRankLen == 3
MaxRankPower == 2

VARIABLES
    tg,         \* SpecTG: a stand-alone TaskGenerator (task.rs tests: `tg`)
    gathered,   \* SpecTG: the Some(task) items it has returned, in order
    tgLast,     \* SpecTG: what the last next() call returned
    hive,       \* HiveBuilder: [workers, observers, retries, threads]
    working,    \* Hive.working: slot index -> WorkingCandidate
    best,       \* Hive.best: fitness of the best candidate
    scouting,   \* Hive.scouting: BTreeSet<usize>
    tasks,      \* Hive.tasks: Option<TaskGenerator>
    sender,     \* Hive.sender is Some(_)
    connected,  \* the Receiver of the stream channel is alive
    chan,       \* fitnesses sent successfully on the stream channel, in order
    streamBase, \* Option: best fitness when stream() was called
    caller,     \* what the thread that owns the hive is doing
    runs,       \* run calls made on the hive so far
    returned,   \* fitnesses returned by run_for_rounds calls, in order
    pulled,     \* tasks handed out by the installed scheduler, in order
    pc,         \* worker thread -> position in Hive::run's loop
    task,       \* worker thread -> the task it pulled
    snap,       \* worker thread -> current_working being built (fitnesses)
    idx,        \* worker thread -> index passed to work_on
    poisoned,   \* the locks of the hive that are poisoned
    ctor,       \* SpecNew: outcome of the constructor call
    ctorArg,    \* SpecNew: the constructor called and its arguments
    wcand,      \* SpecWC: a stand-alone WorkingCandidate
    wcLimit,    \* SpecWC: the usize retry limit it was constructed with
    wcCalls,    \* SpecWC: deplete() calls made on it so far
    wcPanicked, \* SpecWC: a deplete() call panicked (overflow, debug build)
    wcScouting, \* SpecWorkOn: the slot is expired and awaits its regeneration
    rkIn,       \* SpecRank: the fitness vector handed to the scaling function
    rkCall,     \* SpecRank: the scaling function called, and its exponent k
    rkOut,      \* SpecRank: what the call produced
    lkCfg,      \* LockSpec: [workers, threads, streaming] of the hive
    lkPc,       \* LockSpec: worker thread -> position in the thread loop
    lkHeld,     \* LockSpec: worker thread -> the lock guards it holds
    lkTask,     \* LockSpec: worker thread -> the task it pulled
    lkPos,      \* LockSpec: worker thread -> next slot current_working reads
    lkIdx,      \* LockSpec: worker thread -> index passed to work_on
    lkRet,      \* LockSpec: worker thread -> call site of consider_improvement
    lkScouting, \* LockSpec: Hive.scouting
    lkStopped,  \* LockSpec: the scheduler returns None from now on
    lkConnected, \* LockSpec: the Receiver of the stream channel is alive
    flBuilder,  \* SpecFill: the HiveBuilder handed to Hive::new
    flTokens,   \* SpecFill: Hive::new's `tokens`, a Range<usize>
    flCands,    \* SpecFill: Hive::new's `candidates` (fitnesses, push order)
    flPc,       \* SpecFill: fill thread -> position in its loop
    flHive      \* SpecFill: the Hive that Hive::new returns

tgVars == <<tg, gathered, tgLast>>
hiveVars == <<hive, working, best, scouting, tasks, sender, connected, chan,
              streamBase, caller, runs, returned, pulled, pc, task, snap, idx,
              poisoned>>
ctorVars == <<ctor, ctorArg>>
wcVars == <<wcand, wcLimit, wcCalls, wcPanicked, wcScouting>>
rankVars == <<rkIn, rkCall, rkOut>>
lockVars == <<lkCfg, lkPc, lkHeld, lkTask, lkPos, lkIdx, lkRet, lkScouting,
              lkStopped, lkConnected>>
fillVars == <<flBuilder, flTokens, flCands, flPc, flHive>>
extVars == <<rankVars, lockVars, fillVars>>
vars == <<tgVars, hiveVars, ctorVars, wcVars, extVars>>

Threads == 1..MaxThreads
FitVals == 0..MaxFit

(***************************************************************************)
(* Option<T>                                                               *)
(***************************************************************************)
None == [some |-> FALSE, val |-> 0]
Some(v) == [some |-> TRUE, val |-> v]

(***************************************************************************)
(* task.rs: Task                                                           *)
(***************************************************************************)
Worker(n) == [kind |-> "Worker", n |-> n]
Observer(n) == [kind |-> "Observer", n |-> n]
NoTask == [kind |-> "None", n |-> 0]

(***************************************************************************)
(* result.rs: AbcResult<T>; Err carries the unit struct Error              *)
(***************************************************************************)
Ok(v) == [ok |-> TRUE, val |-> v]
Err == [ok |-> FALSE, val |-> 0]

(***************************************************************************)
(* task.rs: TaskGenerator                                                  *)
(***************************************************************************)
TGNew(w, o) ==
    [workers |-> w, observers |-> o, round |-> 0, max_rounds |-> None,
     next |-> Worker(0), stopped |-> FALSE]

TGWithMaxRounds(g, n) == [g EXCEPT !.max_rounds = Some(n)]

TGStop(g) == [g EXCEPT !.stopped = TRUE]

\* Mutant: next() hands out the cursor whether stopped or not.
TGNextItem_IgnoreStopped(g) == g.next

\* The item next() returns: the cursor unless stopped.
TGNextItem(g) == IF ~g.stopped THEN g.next ELSE NoTask

\* Mutant: the round limit is compared with > instead of >=.
TGNextState_OffByOne(g) ==
    IF g.stopped THEN g
    ELSE IF g.next.kind = "Worker" /\ g.next.n = g.workers - 1
         THEN [g EXCEPT !.next = IF g.observers > 0 THEN Observer(0) ELSE Worker(0)]
    ELSE IF g.next.kind = "Worker"
         THEN [g EXCEPT !.next = Worker(g.next.n + 1)]
    ELSE IF g.next.n = g.observers - 1
         THEN [g EXCEPT !.round = g.round + 1,
                        !.stopped = g.max_rounds.some /\ g.round + 1 > g.max_rounds.val,
                        !.next = Worker(0)]
    ELSE [g EXCEPT !.next = Observer(g.next.n + 1)]

\* Mutant: without observers, the wrap of the Worker cycle counts as a round.
TGNextState_RoundAtWorkerWrap(g) ==
    IF g.stopped THEN g
    ELSE IF g.next.kind = "Worker" /\ g.next.n = g.workers - 1
         THEN IF g.observers > 0
              THEN [g EXCEPT !.next = Observer(0)]
              ELSE [g EXCEPT !.round = g.round + 1,
                             !.stopped = g.max_rounds.some
                                         /\ g.round + 1 >= g.max_rounds.val,
                             !.next = Worker(0)]
    ELSE IF g.next.kind = "Worker"
         THEN [g EXCEPT !.next = Worker(g.next.n + 1)]
    ELSE IF g.next.n = g.observers - 1
         THEN [g EXCEPT !.round = g.round + 1,
                        !.stopped = g.max_rounds.some /\ g.round + 1 >= g.max_rounds.val,
                        !.next = Worker(0)]
    ELSE [g EXCEPT !.next = Observer(g.next.n + 1)]

\* Mutant: round is incremented for every Observer task handed out.
TGNextState_RoundEveryObserver(g) ==
    IF g.stopped THEN g
    ELSE IF g.next.kind = "Worker" /\ g.next.n = g.workers - 1
         THEN [g EXCEPT !.next = IF g.observers > 0 THEN Observer(0) ELSE Worker(0)]
    ELSE IF g.next.kind = "Worker"
         THEN [g EXCEPT !.next = Worker(g.next.n + 1)]
    ELSE IF g.next.n = g.observers - 1
         THEN [g EXCEPT !.round = g.round + 1,
                        !.stopped = g.max_rounds.some /\ g.round + 1 >= g.max_rounds.val,
                        !.next = Worker(0)]
    ELSE [g EXCEPT !.round = g.round + 1, !.next = Observer(g.next.n + 1)]

\* The generator after next(): the cursor advances; completing the Observer
\* sub-cycle increments round and may set stopped.
TGNextState(g) ==
    IF g.stopped THEN g
    ELSE IF g.next.kind = "Worker" /\ g.next.n = g.workers - 1
         THEN [g EXCEPT !.next = IF g.observers > 0 THEN Observer(0) ELSE Worker(0)]
    ELSE IF g.next.kind = "Worker"
         THEN [g EXCEPT !.next = Worker(g.next.n + 1)]
    ELSE IF g.next.n = g.observers - 1
         THEN [g EXCEPT !.round = g.round + 1,
                        !.stopped = g.max_rounds.some /\ g.round + 1 >= g.max_rounds.val,
                        !.next = Worker(0)]
    ELSE [g EXCEPT !.next = Observer(g.next.n + 1)]

(***************************************************************************)
(* candidate.rs: WorkingCandidate (the Candidate is its fitness)           *)
(***************************************************************************)
\* i32::MAX and i32::MIN: WorkingCandidate.retries is an i32.
I32Max == 2147483647
I32Min == 0 - I32Max - 1

\* A usize below 2^32 is the record [hi, lo] standing for hi * 2^31 + lo,
\* with hi in {0, 1} and lo in 0..I32Max.
Usize(n) == [hi |-> 0, lo |-> n]

\* `retries as i32`: the low 32 bits, read as a signed number.
AsI32(u) == IF u.hi = 0 THEN u.lo ELSE u.lo + I32Min

\* WorkingCandidate::new(candidate, retries: usize).
WorkingCandidateNew(f, r) == [fitness |-> f, retries |-> AsI32(r)]

Expired(wc) == wc.retries <= 0

\* self.retries -= 1 overflows on i32::MIN: a debug build panics there, a
\* release build wraps.
DepleteOverflows(wc) == wc.retries = I32Min

\* Mutant: deplete() also throws the candidate's fitness away.
Deplete_LosesFitness(wc) == [fitness |-> 0, retries |-> wc.retries - 1]

\* deplete() where it returns (wrapping in the release build).
Deplete(wc) ==
    [wc EXCEPT !.retries = IF DepleteOverflows(wc) THEN I32Max ELSE wc.retries - 1]

(***************************************************************************)
(* scaling.rs: the default scaling function                                *)
(***************************************************************************)
Proportionate(fitnesses) == fitnesses

(***************************************************************************)
(* scaling.rs: power_rank and rank.  A fitness is an f64: one of FitVals   *)
(* or NaN, with which partial_cmp gives None.  NaN is written as a number  *)
(* outside FitVals; no arithmetic or comparison is ever applied to it.     *)
(***************************************************************************)
NaN == 0 - 2

\* fitnesses.iter().enumerate(): each fitness paired with its index.
WithIndices(fitnesses) ==
    [i \in 1..Len(fitnesses) |-> [index |-> i - 1, f |-> fitnesses[i]]]

\* Mutant: an unstable sort, which puts a pair in front of its equals.
RECURSIVE InsertSorted_Unstable(_, _)
InsertSorted_Unstable(sorted, p) ==
    IF sorted = << >> THEN <<p>>
    ELSE IF p.f <= Head(sorted).f THEN <<p>> \o sorted
    ELSE <<Head(sorted)>> \o InsertSorted_Unstable(Tail(sorted), p)

\* One step of the stable sort_by: the pair goes behind every pair that
\* does not compare Greater.
RECURSIVE InsertSorted(_, _)
InsertSorted(sorted, p) ==
    IF sorted = << >> THEN <<p>>
    ELSE IF p.f < Head(sorted).f THEN <<p>> \o sorted
    ELSE <<Head(sorted)>> \o InsertSorted(Tail(sorted), p)

\* with_indices.sort_by(|..| f1.partial_cmp(f2).unwrap()): ascending by
\* fitness, equal fitnesses keeping their order.
RECURSIVE SortByFitness(_)
SortByFitness(pairs) ==
    IF pairs = << >> THEN << >>
    ELSE InsertSorted(SortByFitness(SubSeq(pairs, 1, Len(pairs) - 1)),
                      pairs[Len(pairs)])

\* The unwrap panics as soon as a comparison meets a NaN; a sort of two or
\* more elements compares every element at least once.
SortPanics(fitnesses) ==
    Len(fitnesses) >= 2 /\ \E i \in 1..Len(fitnesses) : fitnesses[i] = NaN

\* (b as f64).powf(k) for a whole exponent k.
RECURSIVE Powf(_, _)
Powf(b, k) == IF k = 0 THEN 1 ELSE b * Powf(b, k - 1)

\* The loop over with_indices.iter().enumerate() from position r on:
\* ranks[index] = (rank_minus_one + 1)^k.
RECURSIVE AssignRanks(_, _, _, _)
AssignRanks(ranks, sorted, r, k) ==
    IF r > Len(sorted) THEN ranks
    ELSE AssignRanks([ranks EXCEPT ![sorted[r].index + 1] = Powf(r, k)],
                     sorted, r + 1, k)

\* power_rank(k) applied to a fitness vector without NaN.
PowerRank(k, fitnesses) ==
    AssignRanks([i \in 1..Len(fitnesses) |-> 0],
                SortByFitness(WithIndices(fitnesses)), 1, k)

\* rank() is power_rank(1).
Rank(fitnesses) == PowerRank(1, fitnesses)

(***************************************************************************)
(* hive.rs: Hive::choose.  `w` is the scaled fitness vector (a sequence,   *)
(* slot i at position i+1), `sc` the scouting set read under its lock.     *)
(***************************************************************************)
Panic == 0 - 1

RECURSIVE RunningTotal(_, _, _)
\* The scan's running total at slot i: the sum over the non-scouting slots <= i.
RunningTotal(w, sc, i) ==
    IF i < 0 THEN 0
    ELSE RunningTotal(w, sc, i - 1) + (IF i \in sc THEN 0 ELSE w[i + 1])

NotScouting(w, sc) == {i \in 0..(Len(w) - 1) : i \notin sc}

LastOf(S) == CHOOSE i \in S : \A j \in S : j <= i

FirstOf(S) == CHOOSE i \in S : \A j \in S : i <= j

\* choice_point = next_f64() * total_fitness with next_f64() in [0, 1): with
\* integer totals every outcome is that of an integer point in 0..total-1,
\* and of 0 when the total is 0.
ChoicePoints(total) == IF total > 0 THEN 0..(total - 1) ELSE {0}

\* The loop over running_totals: the first entry whose total exceeds the
\* choice point; falling out of the loop is unreachable!().
ChooseAt(w, sc, cp) ==
    LET over == {i \in NotScouting(w, sc) : RunningTotal(w, sc, i) > cp}
    IN IF over = {} THEN Panic ELSE FirstOf(over)

\* Mutant: choose ignores the scouting set and picks any index.
Choose_Uniform(w, sc) == 0..(Len(w) - 1)

\* Every outcome choose can have: an index, or Panic.
Choose(w, sc) ==
    IF NotScouting(w, sc) = {}
    THEN 0..(Len(w) - 1)
    ELSE {ChooseAt(w, sc, cp) :
            cp \in ChoicePoints(RunningTotal(w, sc, LastOf(NotScouting(w, sc))))}

(***************************************************************************)
(* hive.rs: Hive                                                           *)
(***************************************************************************)
NoTasks == [some |-> FALSE, gen |-> TGNew(1, 0)]
SomeTasks(g) == [some |-> TRUE, gen |-> g]

Slots == 0..(hive.workers - 1)
Live == 1..hive.threads

\* The thread holding slot i's write lock across a consider_improvement.
Writers(i) == {t \in Live : pc[t] \in {"improve", "install"} /\ idx[t] = i}

MaxOf(S) == CHOOSE x \in S : \A y \in S : y <= x

\* Mutant: Best is overwritten without the comparison.
BestAfter_NoCompare(cand, b) == cand

\* Mutant: the improvement is never propagated to Best.
BestAfter_Never(cand, b) == b

\* consider_improvement: Best after the greedy comparison with `cand`.
BestAfter(cand, b) == IF cand > b THEN cand ELSE b

\* Mutant: stop leaves the scheduler as it is.
StopTasks_Noop(ts) == ts

\* Hive::stop on the scheduler slot.
StopTasks(ts) == IF ts.some THEN SomeTasks(TGStop(ts.gen)) ELSE ts

\* self.best.lock() returns Err: a thread panicked while holding the guard.
BestPoisoned == "best" \in poisoned

\* What get() returns when called in the current state (the guard, through
\* which the caller reads Best).
Get == IF BestPoisoned THEN Err ELSE Ok(best)

\* consider_improvement(cand): Best, the stream channel and (on a failed
\* send) the scheduler, all under Best's lock; with Best's lock poisoned it
\* returns Err and changes nothing.
ConsiderImprovement(cand) ==
    IF BestPoisoned
    THEN UNCHANGED <<best, chan, tasks>>
    ELSE /\ best' = BestAfter(cand, best)
         /\ IF cand > best /\ sender
            THEN IF connected
                 THEN chan' = Append(chan, cand) /\ tasks' = tasks
                 ELSE chan' = chan /\ tasks' = StopTasks(tasks)
            ELSE chan' = chan /\ tasks' = tasks

\* The stand-alone WorkingCandidate while it is not exercised.
WCUnused ==
    /\ wcand = WorkingCandidateNew(0, Usize(0))
    /\ wcLimit = Usize(0)
    /\ wcCalls = 0
    /\ wcPanicked = FALSE
    /\ wcScouting = FALSE

\* The scaling-function call while it is not exercised.
RankUnused ==
    /\ rkIn = << >>
    /\ rkCall = [fn |-> "none", k |-> 0]
    /\ rkOut = [panicked |-> FALSE, ranks |-> << >>]

\* The lock-level thread loop while it is not exercised.
LockUnused ==
    /\ lkCfg = [workers |-> 1, threads |-> 1, streaming |-> FALSE]
    /\ lkPc = [t \in Threads |-> "absent"]
    /\ lkHeld = [t \in Threads |-> {}]
    /\ lkTask = [t \in Threads |-> NoTask]
    /\ lkPos = [t \in Threads |-> 0]
    /\ lkIdx = [t \in Threads |-> 0]
    /\ lkRet = [t \in Threads |-> "none"]
    /\ lkScouting = {}
    /\ lkStopped = FALSE
    /\ lkConnected = FALSE

\* Hive::new has not returned.
NotBuilt ==
    [built |-> FALSE, working |-> << >>, best |-> 0, scouting |-> {},
     tasks |-> [some |-> FALSE, gen |-> TGNew(1, 0)]]

\* The fill of Hive::new while it is not exercised.
FillUnused ==
    /\ flBuilder = [workers |-> 1, retries |-> Usize(0), threads |-> 1]
    /\ flTokens = [start |-> 0, end |-> 0]
    /\ flCands = << >>
    /\ flPc = [t \in Threads |-> "absent"]
    /\ flHive = NotBuilt

ExtUnused == RankUnused /\ LockUnused /\ FillUnused

\* Hive::new: the population after the fill, Best seeded with its maximum.
Init ==
    /\ tg = TGNew(1, 0) /\ gathered = << >> /\ tgLast = NoTask
    /\ \E w \in 1..MaxWorkers, o \in 0..MaxObservers,
          r \in 0..MaxRetries, t \in 1..MaxThreads :
          hive = [workers |-> w, observers |-> o, retries |-> r, threads |-> t]
    /\ \E fs \in [0..(hive.workers - 1) -> FitVals] :
          working = [i \in 0..(hive.workers - 1) |->
                        WorkingCandidateNew(fs[i], Usize(hive.retries))]
    /\ best = MaxOf({working[i].fitness : i \in 0..(hive.workers - 1)})
    /\ scouting = {}
    /\ tasks = NoTasks
    /\ sender = FALSE
    /\ connected = FALSE
    /\ chan = << >>
    /\ streamBase = None
    /\ caller = "idle"
    /\ runs = 0
    /\ returned = << >>
    /\ pulled = << >>
    /\ pc = [t \in Threads |-> "idle"]
    /\ task = [t \in Threads |-> NoTask]
    /\ snap = [t \in Threads |-> << >>]
    /\ idx = [t \in Threads |-> 0]
    /\ poisoned = {}
    /\ ctor = "hive"
    /\ ctorArg = [kind |-> "HiveBuilder", workers |-> hive.workers, observers |-> 0]
    /\ WCUnused
    /\ ExtUnused

\* Mutant: get_round counts rounds from 1.
GetRound_OneBased ==
    IF tasks.some THEN Ok(Some(tasks.gen.round + 1)) ELSE Ok(None)

\* What get_round() returns when called in the current state.
GetRound ==
    IF "tasks" \in poisoned THEN Err
    ELSE IF tasks.some THEN Ok(Some(tasks.gen.round)) ELSE Ok(None)

\* Hive::run, up to the spawn of the threads: install the scheduler.
StartRun(g) ==
    /\ tasks' = SomeTasks(g)
    /\ runs' = runs + 1
    /\ pulled' = << >>
    /\ pc' = [t \in Threads |-> IF t \in Live THEN "pull" ELSE "idle"]

RunForRounds(n) ==
    /\ caller \in {"idle", "error"}
    /\ runs < MaxRuns
    /\ StartRun(TGWithMaxRounds(TGNew(hive.workers, hive.observers), n))
    /\ caller' = "run_for_rounds"
    /\ UNCHANGED <<tgVars, ctorVars, wcVars, extVars, poisoned, hive, working, best, scouting, sender, connected, chan,
                   streamBase, returned, task, snap, idx>>

RunForever ==
    /\ caller \in {"idle", "error"}
    /\ runs < MaxRuns
    /\ StartRun(TGNew(hive.workers, hive.observers))
    /\ caller' = "run_forever"
    /\ UNCHANGED <<tgVars, ctorVars, wcVars, extVars, poisoned, hive, working, best, scouting, sender, connected, chan,
                   streamBase, returned, task, snap, idx>>

\* stream(): the channel is created and the hive moves to a background thread.
Stream ==
    /\ caller = "idle"
    /\ caller' = "stream"
    /\ connected' = TRUE
    /\ streamBase' = Some(best)
    /\ UNCHANGED <<tgVars, ctorVars, wcVars, extVars, poisoned, hive, working, best, scouting, tasks, sender, chan,
                   runs, returned, pulled, pc, task, snap, idx>>

\* Mutant: set_sender attaches the sender without sending Best.
SetSenderChan_NoFirst(ch, b) == ch

\* set_sender: Best is sent first (a failed send is ignored, and so is a
\* poisoned Best).
SetSenderChan(ch, b) == IF connected /\ ~BestPoisoned THEN Append(ch, b) ELSE ch

\* The background thread of stream(): set_sender, then run.
StreamRun ==
    /\ caller = "stream"
    /\ chan' = SetSenderChan(chan, best)
    /\ sender' = TRUE
    /\ StartRun(TGNew(hive.workers, hive.observers))
    /\ caller' = "streaming"
    /\ UNCHANGED <<tgVars, ctorVars, wcVars, extVars, poisoned, hive, working, best, scouting, connected,
                   streamBase, returned, task, snap, idx>>

\* The consumer drops the Receiver.
Disconnect ==
    /\ connected
    /\ connected' = FALSE
    /\ UNCHANGED <<tgVars, ctorVars, wcVars, extVars, poisoned, hive, working, best, scouting, tasks, sender, chan,
                   streamBase, caller, runs, returned, pulled, pc, task, snap, idx>>

\* stop() called by another holder of &Hive while a run is in progress.
Stop ==
    /\ caller \in {"run_for_rounds", "run_forever"}
    /\ tasks.some /\ ~tasks.gen.stopped
    /\ tasks' = StopTasks(tasks)
    /\ UNCHANGED <<tgVars, ctorVars, wcVars, extVars, poisoned, hive, working, best, scouting, sender, connected, chan,
                   streamBase, caller, runs, returned, pulled, pc, task, snap, idx>>

\* Another thread of the caller's program takes the guard of get() and
\* panics while holding it: Best's lock is poisoned from then on.
GetPanic ==
    /\ ~BestPoisoned
    /\ poisoned' = poisoned \cup {"best"}
    /\ UNCHANGED <<tgVars, ctorVars, wcVars, extVars, hive, working, best, scouting, tasks,
                   sender, connected, chan, streamBase, caller, runs, returned,
                   pulled, pc, task, snap, idx>>

\* Mutant: every pull hands out the scheduler's first task again.
PullItem_FirstAgain(ts) == IF ts.some THEN Worker(0) ELSE NoTask

\* The thread loop: lock the scheduler, pull the next task, unlock.
PullItem(ts) == IF ts.some THEN TGNextItem(ts.gen) ELSE NoTask

\* A scheduler that stops by itself: bounded, with an Observer sub-cycle.
\* Any other is cut off after MaxPulls tasks.
Exhausts(g) == g.max_rounds.some /\ g.observers > 0

Pull(t) ==
    /\ pc[t] = "pull"
    /\ PullItem(tasks) # NoTask => (Exhausts(tasks.gen) \/ Len(pulled) < MaxPulls)
    /\ tasks' = IF tasks.some THEN SomeTasks(TGNextState(tasks.gen)) ELSE tasks
    /\ pulled' = IF PullItem(tasks) = NoTask THEN pulled
                 ELSE Append(pulled, PullItem(tasks))
    /\ task' = [task EXCEPT ![t] = PullItem(tasks)]
    /\ pc' = [pc EXCEPT ![t] = IF PullItem(tasks) = NoTask THEN "done" ELSE "snap"]
    /\ UNCHANGED <<tgVars, ctorVars, wcVars, extVars, poisoned, hive, working, best, scouting, sender, connected, chan,
                   streamBase, caller, runs, returned, snap, idx>>

\* current_working: read-lock the next slot and clone its candidate.
Snap(t) ==
    /\ pc[t] = "snap"
    /\ Writers(Len(snap[t])) = {}
    /\ snap' = [snap EXCEPT ![t] = Append(@, working[Len(@)].fitness)]
    /\ pc' = [pc EXCEPT ![t] = IF Len(snap[t]) + 1 = hive.workers
                               THEN "select" ELSE "snap"]
    /\ UNCHANGED <<tgVars, ctorVars, wcVars, extVars, poisoned, hive, working, best, scouting, tasks, sender, connected,
                   chan, streamBase, caller, runs, returned, pulled, task, idx>>

\* Mutant: the scouting check of execute never skips.
SkipWorker_Never(n, sc) == FALSE

\* Worker(n) is skipped when n is scouting at the time of the check.
SkipWorker(n, sc) == n \in sc

\* execute: the index to work on (Worker: after the scouting check;
\* Observer: choose), the skip of a scouting Worker, or choose's panic.
Select(t) ==
    /\ pc[t] = "select"
    /\ IF task[t].kind = "Worker"
       THEN IF SkipWorker(task[t].n, scouting)
            THEN /\ pc' = [pc EXCEPT ![t] = "pull"]
                 /\ idx' = idx
            ELSE /\ pc' = [pc EXCEPT ![t] = "work"]
                 /\ idx' = [idx EXCEPT ![t] = task[t].n]
       ELSE \E c \in Choose(Proportionate(snap[t]), scouting) :
                IF c = Panic
                THEN /\ pc' = [pc EXCEPT ![t] = "panicked"]
                     /\ idx' = idx
                ELSE /\ pc' = [pc EXCEPT ![t] = "work"]
                     /\ idx' = [idx EXCEPT ![t] = c]
    /\ snap' = [snap EXCEPT ![t] = << >>]
    /\ task' = [task EXCEPT ![t] = IF pc'[t] = "work" THEN @ ELSE NoTask]
    /\ UNCHANGED <<tgVars, ctorVars, wcVars, extVars, poisoned, hive, working, best, scouting, tasks, sender, connected,
                   chan, streamBase, caller, runs, returned, pulled>>

\* work_on up to the first consider_improvement or the scouting insert:
\* explore and evaluate (variant fitness v), write-lock the slot, compare.
Work(t) ==
    /\ pc[t] = "work"
    /\ Writers(idx[t]) = {}
    /\ \E v \in FitVals :
         IF v > working[idx[t]].fitness
         THEN /\ working' = [working EXCEPT ![idx[t]] =
                                WorkingCandidateNew(v, Usize(hive.retries))]
              /\ pc' = [pc EXCEPT ![t] = "improve"]
              /\ scouting' = scouting
         ELSE /\ working' = [working EXCEPT ![idx[t]] = Deplete(@)]
              /\ IF Expired(Deplete(working[idx[t]]))
                 THEN /\ scouting' = scouting \cup {idx[t]}
                      /\ pc' = [pc EXCEPT ![t] = "scout"]
                 ELSE /\ scouting' = scouting
                      /\ pc' = [pc EXCEPT ![t] = "pull"]
    /\ task' = [task EXCEPT ![t] = IF pc'[t] = "pull" THEN NoTask ELSE @]
    /\ idx' = [idx EXCEPT ![t] = IF pc'[t] = "pull" THEN 0 ELSE @]
    /\ UNCHANGED <<tgVars, ctorVars, wcVars, extVars, poisoned, hive, best, tasks, sender, connected, chan,
                   streamBase, caller, runs, returned, pulled, snap>>

\* work_on line 222: consider_improvement of the new slot value, then the
\* write guard is dropped.
Improve(t) ==
    /\ pc[t] = "improve"
    /\ ConsiderImprovement(working[idx[t]].fitness)
    /\ pc' = [pc EXCEPT ![t] = IF BestPoisoned THEN "erred" ELSE "pull"]
    /\ task' = [task EXCEPT ![t] = NoTask]
    /\ idx' = [idx EXCEPT ![t] = 0]
    /\ UNCHANGED <<tgVars, ctorVars, wcVars, extVars, poisoned, hive, working, scouting, sender, connected,
                   streamBase, caller, runs, returned, pulled, snap>>

\* work_on lines 232-234: new_candidate (fitness c) with no lock held, then
\* the slot is write-locked again and overwritten.
Scout(t) ==
    /\ pc[t] = "scout"
    /\ Writers(idx[t]) = {}
    /\ \E c \in FitVals :
         working' = [working EXCEPT ![idx[t]] = WorkingCandidateNew(c, Usize(hive.retries))]
    /\ pc' = [pc EXCEPT ![t] = "install"]
    /\ UNCHANGED <<tgVars, ctorVars, wcVars, extVars, poisoned, hive, best, scouting, tasks, sender, connected, chan,
                   streamBase, caller, runs, returned, pulled, task, snap, idx>>

\* work_on lines 235-236: consider_improvement, drop the write guard; on
\* Err the thread returns with the index left in the scouting set.
Install(t) ==
    /\ pc[t] = "install"
    /\ ConsiderImprovement(working[idx[t]].fitness)
    /\ pc' = [pc EXCEPT ![t] = IF BestPoisoned THEN "erred" ELSE "unscout"]
    /\ task' = [task EXCEPT ![t] = IF BestPoisoned THEN NoTask ELSE @]
    /\ idx' = [idx EXCEPT ![t] = IF BestPoisoned THEN 0 ELSE @]
    /\ UNCHANGED <<tgVars, ctorVars, wcVars, extVars, poisoned, hive, working, scouting, sender, connected,
                   streamBase, caller, runs, returned, pulled, snap>>

\* work_on lines 238-239: remove the index from the scouting set.
Unscout(t) ==
    /\ pc[t] = "unscout"
    /\ scouting' = scouting \ {idx[t]}
    /\ pc' = [pc EXCEPT ![t] = "pull"]
    /\ task' = [task EXCEPT ![t] = NoTask]
    /\ idx' = [idx EXCEPT ![t] = 0]
    /\ UNCHANGED <<tgVars, ctorVars, wcVars, extVars, poisoned, hive, working, best, tasks, sender, connected, chan,
                   streamBase, caller, runs, returned, pulled, snap>>

Running == caller \in {"run_for_rounds", "run_forever", "streaming"}
Ended(t) == pc[t] \in {"done", "panicked", "erred"}

\* Hive::run lines 324-329 and the return of the run call: all threads are
\* joined; a thread that panicked makes the join panic, otherwise the
\* scheduler slot is cleared and run_for_rounds returns a clone of Best.
Join ==
    /\ Running
    /\ \A t \in Live : Ended(t)
    /\ pc' = [t \in Threads |-> "idle"]
    /\ IF \E t \in Live : pc[t] = "panicked"
       THEN /\ caller' = "failed"
            /\ UNCHANGED <<tasks, returned>>
       ELSE /\ tasks' = NoTasks
            /\ IF caller = "streaming"
               THEN caller' = "dropped" /\ returned' = returned
               ELSE IF (\E t \in Live : pc[t] = "erred")
                       \/ (caller = "run_for_rounds" /\ ~Get.ok)
               THEN caller' = "error" /\ returned' = returned
               ELSE /\ caller' = "idle"
                    /\ returned' = IF caller = "run_for_rounds"
                                   THEN Append(returned, Get.val) ELSE returned
    /\ UNCHANGED <<tgVars, ctorVars, wcVars, extVars, poisoned, hive, working, best, scouting, sender, connected, chan,
                   streamBase, runs, pulled, task, snap, idx>>

ThreadStep(t) ==
    \/ Pull(t)
    \/ Snap(t)
    \/ Select(t)
    \/ Work(t)
    \/ Improve(t)
    \/ Scout(t)
    \/ Install(t)
    \/ Unscout(t)

\* Calls made through &Hive: run_for_rounds, run_forever, stop; the worker
\* threads; the join that ends a run.
Next ==
    \/ \E n \in 1..MaxRounds : RunForRounds(n)
    \/ RunForever
    \/ Stop
    \/ \E t \in Threads : ThreadStep(t)
    \/ Join

Spec == Init /\ [][Next]_vars

\* A single run call, with the scheduling the threads get: each spawned
\* thread keeps running, and the joining caller resumes.
NextOnce ==
    \/ \E n \in 1..MaxRounds : runs = 0 /\ RunForRounds(n)
    \/ runs = 0 /\ RunForever
    \/ Stop
    \/ \E t \in Threads : ThreadStep(t)
    \/ Join

Fairness == (\A t \in Threads : WF_vars(ThreadStep(t))) /\ WF_vars(Join)

FairSpec == Init /\ [][NextOnce]_vars /\ Fairness

\* A run call on a hive whose Best lock another thread may poison, and a
\* run_for_rounds call made after a call has returned Err.
NextPoison ==
    \/ \E n \in 1..MaxRounds : (runs = 0 \/ caller = "error") /\ RunForRounds(n)
    \/ runs = 0 /\ RunForever
    \/ Stop
    \/ GetPanic
    \/ \E t \in Threads : ThreadStep(t)
    \/ Join

PoisonSpec == Init /\ [][NextPoison]_vars

\* stream() on a freshly built hive, and its consumer.
NextStream ==
    \/ Stream
    \/ StreamRun
    \/ Disconnect
    \/ \E t \in Threads : ThreadStep(t)
    \/ Join

StreamSpec == Init /\ [][NextStream]_vars

FairStreamSpec == StreamSpec /\ Fairness /\ WF_vars(StreamRun)

\* The hive's variables while only a stand-alone scheduler is exercised.
HiveUnused ==
    /\ hive = [workers |-> 1, observers |-> 0, retries |-> 0, threads |-> 1]
    /\ working = [i \in {0} |-> WorkingCandidateNew(0, Usize(0))]
    /\ best = 0
    /\ scouting = {}
    /\ tasks = NoTasks
    /\ sender = FALSE
    /\ connected = FALSE
    /\ chan = << >>
    /\ streamBase = None
    /\ caller = "idle"
    /\ runs = 0
    /\ returned = << >>
    /\ pulled = << >>
    /\ pc = [t \in Threads |-> "idle"]
    /\ task = [t \in Threads |-> NoTask]
    /\ snap = [t \in Threads |-> << >>]
    /\ idx = [t \in Threads |-> 0]
    /\ poisoned = {}

(***************************************************************************)
(* SpecTG: a TaskGenerator on its own, drained by successive next() calls  *)
(* (task.rs tests::basic_cycle: `tg.collect()`).                           *)
(***************************************************************************)
InitTG ==
    /\ \E w \in 1..TGMaxWorkers, o \in 0..TGMaxObservers, m \in 0..TGMaxRounds :
          tg = TGWithMaxRounds(TGNew(w, o), m)
    /\ gathered = << >>
    /\ tgLast = NoTask
    /\ HiveUnused
    /\ ctor = "generator"
    /\ ctorArg = [kind |-> "TaskGenerator", workers |-> tg.workers,
                  observers |-> tg.observers]
    /\ WCUnused
    /\ ExtUnused

TGPull ==
    /\ Len(gathered) < MaxGather
    /\ tgLast' = TGNextItem(tg)
    /\ gathered' = IF TGNextItem(tg) = NoTask THEN gathered
                   ELSE Append(gathered, TGNextItem(tg))
    /\ tg' = TGNextState(tg)
    /\ UNCHANGED <<hiveVars, ctorVars, wcVars, extVars>>

NextTG == TGPull

SpecTG == InitTG /\ [][NextTG]_vars

(***************************************************************************)
(* SpecNew: the constructors.  Before construction no object exists: the   *)
(* variables of the objects hold Absent.                                   *)
(***************************************************************************)
Absent == [exists |-> FALSE]

\* TaskGenerator::new panics on workers == 0.
TGNewPanics(w) == w = 0

\* Mutant: HiveBuilder::new accepts any number of workers.
HiveBuilderNewPanics_Never(w) == FALSE

\* HiveBuilder::new panics on workers == 0.
HiveBuilderNewPanics(w) == w = 0

\* HiveBuilder::new: observers and retries default to workers, threads to
\* the number of CPUs.
HiveBuilderNew(w, cpus) ==
    [workers |-> w, observers |-> w, retries |-> w, threads |-> cpus]

NothingBuilt ==
    /\ tg = Absent /\ hive = Absent /\ working = Absent /\ best = Absent
    /\ scouting = Absent /\ tasks = Absent

InitNew ==
    /\ ctor = "pending"
    /\ \/ \E w \in 0..MaxWorkers, o \in 0..MaxObservers :
             ctorArg = [kind |-> "TaskGenerator", workers |-> w, observers |-> o]
       \/ \E w \in 0..MaxWorkers :
             ctorArg = [kind |-> "HiveBuilder", workers |-> w, observers |-> 0]
    /\ NothingBuilt
    /\ gathered = << >> /\ tgLast = NoTask
    /\ sender = FALSE
    /\ connected = FALSE
    /\ chan = << >>
    /\ streamBase = None
    /\ caller = "idle"
    /\ runs = 0
    /\ returned = << >>
    /\ pulled = << >>
    /\ pc = [t \in Threads |-> "idle"]
    /\ task = [t \in Threads |-> NoTask]
    /\ snap = [t \in Threads |-> << >>]
    /\ idx = [t \in Threads |-> 0]
    /\ poisoned = {}
    /\ WCUnused
    /\ ExtUnused

NewFrame ==
    UNCHANGED <<gathered, tgLast, sender, connected, chan, streamBase, caller,
                runs, returned, pulled, pc, task, snap, idx, poisoned,
                ctorArg, wcVars, extVars>>

\* TaskGenerator::new(workers, observers).
NewTaskGenerator ==
    /\ ctor = "pending" /\ ctorArg.kind = "TaskGenerator"
    /\ IF TGNewPanics(ctorArg.workers)
       THEN ctor' = "panicked" /\ tg' = tg
       ELSE ctor' = "generator" /\ tg' = TGNew(ctorArg.workers, ctorArg.observers)
    /\ UNCHANGED <<hive, working, best, scouting, tasks>>
    /\ NewFrame

\* HiveBuilder::new(context, workers).
NewHiveBuilder ==
    /\ ctor = "pending" /\ ctorArg.kind = "HiveBuilder"
    /\ IF HiveBuilderNewPanics(ctorArg.workers)
       THEN ctor' = "panicked" /\ hive' = hive
       ELSE /\ ctor' = "builder"
            /\ \E cpus \in 1..MaxThreads : hive' = HiveBuilderNew(ctorArg.workers, cpus)
    /\ UNCHANGED <<tg, working, best, scouting, tasks>>
    /\ NewFrame

SetObservers(o) ==
    /\ ctor = "builder"
    /\ hive' = [hive EXCEPT !.observers = o]
    /\ UNCHANGED <<ctor, tg, working, best, scouting, tasks>>
    /\ NewFrame

SetRetries(r) ==
    /\ ctor = "builder"
    /\ hive' = [hive EXCEPT !.retries = r]
    /\ UNCHANGED <<ctor, tg, working, best, scouting, tasks>>
    /\ NewFrame

SetThreads(t) ==
    /\ ctor = "builder"
    /\ hive' = [hive EXCEPT !.threads = t]
    /\ UNCHANGED <<ctor, tg, working, best, scouting, tasks>>
    /\ NewFrame

\* HiveBuilder::build, i.e. Hive::new: the fill, the best seed (fold1 and
\* unwrap panic on an empty population) and the fields of the Hive.
Build ==
    /\ ctor = "builder"
    /\ IF hive.workers = 0 \/ hive.threads = 0
       THEN /\ ctor' = "panicked"
            /\ UNCHANGED <<working, best, scouting, tasks>>
       ELSE /\ ctor' = "hive"
            /\ \E fs \in [0..(hive.workers - 1) -> FitVals] :
                  /\ working' = [i \in 0..(hive.workers - 1) |->
                                   WorkingCandidateNew(fs[i], Usize(hive.retries))]
                  /\ best' = MaxOf({fs[i] : i \in 0..(hive.workers - 1)})
            /\ scouting' = {}
            /\ tasks' = NoTasks
    /\ UNCHANGED <<tg, hive>>
    /\ NewFrame

NextNew ==
    \/ NewTaskGenerator
    \/ NewHiveBuilder
    \/ \E o \in 0..MaxObservers : SetObservers(o)
    \/ \E r \in 0..MaxRetries : SetRetries(r)
    \/ \E t \in 0..MaxThreads : SetThreads(t)
    \/ Build

SpecNew == InitNew /\ [][NextNew]_vars

(***************************************************************************)
(* SpecWC: a WorkingCandidate on its own, constructed with a usize retry   *)
(* limit and depleted by successive deplete() calls.                       *)
(***************************************************************************)
\* The usize u is <= the small number n.
UsizeLeq(u, n) == u.hi = 0 /\ u.lo <= n

InitWC ==
    /\ \E h \in {0, 1}, l \in 0..MaxWCRetries : wcLimit = [hi |-> h, lo |-> l]
    /\ \E f \in FitVals : wcand = WorkingCandidateNew(f, wcLimit)
    /\ wcCalls = 0
    /\ wcPanicked = FALSE
    /\ wcScouting = FALSE
    /\ tg = TGNew(1, 0) /\ gathered = << >> /\ tgLast = NoTask
    /\ HiveUnused
    /\ ctor = "hive"
    /\ ctorArg = [kind |-> "HiveBuilder", workers |-> 1, observers |-> 0]
    /\ ExtUnused

WCDeplete ==
    /\ ~wcPanicked
    /\ wcCalls < MaxDepletes
    /\ \/ /\ wcand' = Deplete(wcand)
          /\ wcCalls' = wcCalls + 1
          /\ wcPanicked' = FALSE
       \/ /\ DepleteOverflows(wcand)
          /\ wcPanicked' = TRUE
          /\ UNCHANGED <<wcand, wcCalls>>
    /\ UNCHANGED <<wcLimit, wcScouting, tgVars, hiveVars, ctorVars, extVars>>

NextWC == WCDeplete

SpecWC == InitWC /\ [][NextWC]_vars

(***************************************************************************)
(* SpecWorkOn: work_on called again and again by one thread on one slot    *)
(* whose retry limit is any usize.  wcCalls counts the comparisons made.   *)
(***************************************************************************)
InitWorkOn == InitWC

\* work_on lines 219-230: the comparison of the variant (fitness v) with
\* the write-locked slot, then the replacement, or deplete() and the test
\* of expired().  A deplete() that overflows panics or wraps, as built.
WorkOnCompare(v) ==
    /\ ~wcPanicked
    /\ ~wcScouting
    /\ wcCalls < MaxDepletes
    /\ IF v > wcand.fitness
       THEN /\ wcand' = WorkingCandidateNew(v, wcLimit)
            /\ wcCalls' = wcCalls + 1
            /\ UNCHANGED <<wcScouting, wcPanicked>>
       ELSE \/ /\ wcand' = Deplete(wcand)
               /\ wcCalls' = wcCalls + 1
               /\ wcScouting' = Expired(Deplete(wcand))
               /\ wcPanicked' = FALSE
            \/ /\ DepleteOverflows(wcand)
               /\ wcPanicked' = TRUE
               /\ UNCHANGED <<wcand, wcCalls, wcScouting>>
    /\ UNCHANGED <<wcLimit, tgVars, hiveVars, ctorVars, extVars>>

\* work_on lines 232-239: the regeneration of the expired slot with a new
\* candidate (fitness c).
WorkOnRegenerate(c) ==
    /\ wcScouting
    /\ wcand' = WorkingCandidateNew(c, wcLimit)
    /\ wcScouting' = FALSE
    /\ UNCHANGED <<wcLimit, wcCalls, wcPanicked, tgVars, hiveVars, ctorVars, extVars>>

NextWorkOn ==
    \/ \E v \in FitVals : WorkOnCompare(v)
    \/ \E c \in FitVals : WorkOnRegenerate(c)

SpecWorkOn == InitWorkOn /\ [][NextWorkOn]_vars

(***************************************************************************)
(* LockSpec: the thread loop of Hive::run with every lock acquisition and  *)
(* release a step of its own.  A guard is [l, n, m]: the lock (a slot's    *)
(* RwLock with its index n, "scouting", "best", "sender", "tasks") and the *)
(* mode it is held in ("r" for an RwLock read guard, "w" otherwise).       *)
(* Fitness values are left out: a comparison of fitnesses goes either way. *)
(***************************************************************************)
Guard(l, n, m) == [l |-> l, n |-> n, m |-> m]
SlotRead(n) == Guard("slot", n, "r")
SlotWrite(n) == Guard("slot", n, "w")
ScoutingRead == Guard("scouting", 0, "r")
ScoutingWrite == Guard("scouting", 0, "w")
BestGuard == Guard("best", 0, "w")
SenderGuard == Guard("sender", 0, "w")
TasksGuard == Guard("tasks", 0, "w")

LkThreads == 1..lkCfg.threads
LkSlots == 0..(lkCfg.workers - 1)

\* The guards held on the lock of guard g, by any thread.
Holders(g) ==
    {h \in UNION {lkHeld[t] : t \in Threads} : h.l = g.l /\ h.n = g.n}

\* lock() / write() return when nobody holds a guard; read() returns when
\* nobody holds the write guard.  Neither lock is reentrant.
CanLock(g) ==
    IF g.m = "w" THEN Holders(g) = {}
    ELSE \A h \in Holders(g) : h.m = "r"

\* The guard thread t is waiting for at its position, if any.
Wanted(t) ==
    CASE lkPc[t] = "loop" -> {TasksGuard}
      [] lkPc[t] = "cw" -> {SlotRead(lkPos[t])}
      [] lkPc[t] = "exec" -> {ScoutingRead}
      [] lkPc[t] = "wlock" -> {SlotWrite(lkIdx[t])}
      [] lkPc[t] = "sc_lock" -> {ScoutingWrite}
      [] lkPc[t] = "relock" -> {SlotWrite(lkIdx[t])}
      [] lkPc[t] = "ci_lock" -> {BestGuard}
      [] lkPc[t] = "ci_sender" -> {SenderGuard}
      [] lkPc[t] = "ci_stop" -> {TasksGuard}
      [] lkPc[t] = "sc_remove" -> {ScoutingWrite}
      [] OTHER -> {}

\* Thread t takes the guard it is waiting for and moves to position `to`.
Lock(t, to) ==
    /\ \A g \in Wanted(t) : CanLock(g)
    /\ lkHeld' = [lkHeld EXCEPT ![t] = @ \cup Wanted(t)]
    /\ lkPc' = [lkPc EXCEPT ![t] = to]

LockFrame == UNCHANGED <<lkCfg, lkTask, lkPos, lkIdx, lkRet, lkScouting,
                         lkStopped, lkConnected, rankVars, fillVars, tgVars,
                         hiveVars, ctorVars, wcVars>>

InitLock ==
    /\ \E w \in 1..MaxWorkers, n \in 1..MaxThreads, s \in BOOLEAN :
          lkCfg = [workers |-> w, threads |-> n, streaming |-> s]
    /\ lkPc = [t \in Threads |-> IF t \in LkThreads THEN "loop" ELSE "absent"]
    /\ lkHeld = [t \in Threads |-> {}]
    /\ lkTask = [t \in Threads |-> NoTask]
    /\ lkPos = [t \in Threads |-> 0]
    /\ lkIdx = [t \in Threads |-> 0]
    /\ lkRet = [t \in Threads |-> "none"]
    /\ lkScouting = {}
    /\ lkStopped = FALSE
    /\ lkConnected = lkCfg.streaming
    /\ tg = TGNew(1, 0) /\ gathered = << >> /\ tgLast = NoTask
    /\ HiveUnused
    /\ ctor = "hive"
    /\ ctorArg = [kind |-> "HiveBuilder", workers |-> 1, observers |-> 0]
    /\ WCUnused
    /\ RankUnused
    /\ FillUnused

\* run line 307: self.tasks.lock().
LkLoopLock(t) ==
    /\ lkPc[t] = "loop"
    /\ Lock(t, "next")
    /\ LockFrame

\* Mutant: the thread loop keeps the scheduler guard while it executes the
\* task.
AfterNext_KeepGuard(held) == held

\* run line 309: drop(guard).
AfterNext(held) == held \ {TasksGuard}

\* run lines 308-313: gen.next() under the guard, drop(guard), and the
\* match on the task.  A stopped or exhausted scheduler gives None.
LkLoopNext(t) ==
    /\ lkPc[t] = "next"
    /\ \E k \in {Worker(n) : n \in LkSlots} \cup {Observer(0), NoTask} :
          /\ lkStopped => k = NoTask
          /\ lkTask' = [lkTask EXCEPT ![t] = k]
          /\ lkStopped' = (lkStopped \/ k = NoTask)
          /\ lkPc' = [lkPc EXCEPT ![t] = IF k = NoTask THEN "done" ELSE "cw"]
    /\ lkHeld' = [lkHeld EXCEPT ![t] = AfterNext(@)]
    /\ lkPos' = [lkPos EXCEPT ![t] = 0]
    /\ UNCHANGED <<lkCfg, lkIdx, lkRet, lkScouting, lkConnected, rankVars, fillVars,
                   tgVars, hiveVars, ctorVars, wcVars>>

\* current_working line 181: candidate_mutex.read().
LkSnapLock(t) ==
    /\ lkPc[t] = "cw"
    /\ Lock(t, "cw_read")
    /\ LockFrame

\* current_working lines 182-183: clone the candidate; the read guard goes
\* out of scope at the end of the loop body.
LkSnapClone(t) ==
    /\ lkPc[t] = "cw_read"
    /\ lkHeld' = [lkHeld EXCEPT ![t] = @ \ {SlotRead(lkPos[t])}]
    /\ lkPos' = [lkPos EXCEPT ![t] = @ + 1]
    /\ lkPc' = [lkPc EXCEPT ![t] = IF lkPos[t] + 1 = lkCfg.workers
                                   THEN "exec" ELSE "cw"]
    /\ UNCHANGED <<lkCfg, lkTask, lkIdx, lkRet, lkScouting, lkStopped,
                   lkConnected, rankVars, fillVars, tgVars, hiveVars, ctorVars, wcVars>>

\* execute line 285 (Worker) and choose line 251 (Observer):
\* self.scouting.read().
LkScoutingRead(t) ==
    /\ lkPc[t] = "exec"
    /\ Lock(t, IF lkTask[t].kind = "Worker" THEN "check" ELSE "choose")
    /\ LockFrame

\* execute lines 286-290: the scouting check; the read guard goes out of
\* scope with the match arm, before work_on is called.
LkCheck(t) ==
    /\ lkPc[t] = "check"
    /\ lkHeld' = [lkHeld EXCEPT ![t] = @ \ {ScoutingRead}]
    /\ lkPc' = [lkPc EXCEPT ![t] = IF SkipWorker(lkTask[t].n, lkScouting)
                                   THEN "loop" ELSE "explore"]
    /\ lkIdx' = [lkIdx EXCEPT ![t] = lkTask[t].n]
    /\ UNCHANGED <<lkCfg, lkTask, lkPos, lkRet, lkScouting, lkStopped,
                   lkConnected, rankVars, fillVars, tgVars, hiveVars, ctorVars, wcVars>>

\* choose lines 252-277: the running totals under the read guard,
\* drop(scouting_guard), then the draw: an index that is not scouting (any
\* index when all are), or the panic of unreachable!().
LkChoose(t) ==
    /\ lkPc[t] = "choose"
    /\ lkHeld' = [lkHeld EXCEPT ![t] = @ \ {ScoutingRead}]
    /\ \/ \E i \in LkSlots :
             /\ i \in lkScouting => LkSlots \subseteq lkScouting
             /\ lkIdx' = [lkIdx EXCEPT ![t] = i]
             /\ lkPc' = [lkPc EXCEPT ![t] = "explore"]
       \/ /\ ~(LkSlots \subseteq lkScouting)
          /\ lkIdx' = lkIdx
          /\ lkPc' = [lkPc EXCEPT ![t] = "panicked"]
    /\ UNCHANGED <<lkCfg, lkTask, lkPos, lkRet, lkScouting, lkStopped,
                   lkConnected, rankVars, fillVars, tgVars, hiveVars, ctorVars, wcVars>>

\* work_on lines 216-218: context.explore and context.evaluate_fitness.
LkExplore(t) ==
    /\ lkPc[t] = "explore"
    /\ lkPc' = [lkPc EXCEPT ![t] = "wlock"]
    /\ UNCHANGED <<lkHeld, lkCfg, lkTask, lkPos, lkIdx, lkRet, lkScouting,
                   lkStopped, lkConnected, rankVars, fillVars, tgVars, hiveVars,
                   ctorVars, wcVars>>

\* work_on line 219: self.working[n].write().
LkWriteLock(t) ==
    /\ lkPc[t] = "wlock"
    /\ Lock(t, "compare")
    /\ LockFrame

\* work_on lines 220-226 and 241-242: the variant is fitter (on to
\* consider_improvement), or the slot is depleted and is not expired (the
\* write guard goes out of scope as work_on returns), or it is expired.
LkCompare(t) ==
    /\ lkPc[t] = "compare"
    /\ \/ /\ lkPc' = [lkPc EXCEPT ![t] = "ci_lock"]
          /\ lkRet' = [lkRet EXCEPT ![t] = "improve"]
          /\ lkHeld' = lkHeld
       \/ /\ lkPc' = [lkPc EXCEPT ![t] = "loop"]
          /\ lkHeld' = [lkHeld EXCEPT ![t] = @ \ {SlotWrite(lkIdx[t])}]
          /\ lkRet' = lkRet
       \/ /\ lkPc' = [lkPc EXCEPT ![t] = "sc_lock"]
          /\ UNCHANGED <<lkHeld, lkRet>>
    /\ UNCHANGED <<lkCfg, lkTask, lkPos, lkIdx, lkScouting, lkStopped,
                   lkConnected, rankVars, fillVars, tgVars, hiveVars, ctorVars, wcVars>>

\* work_on line 227: self.scouting.write(), the slot's write guard held.
LkScoutingLock(t) ==
    /\ lkPc[t] = "sc_lock"
    /\ Lock(t, "sc_insert")
    /\ LockFrame

\* Mutant: the slot's write guard is kept across the regeneration.
AfterInsert_KeepSlot(held, n) == held \ {ScoutingWrite}

\* work_on lines 229-230: drop(scouting_guard); drop(write_guard).
AfterInsert(held, n) == held \ {ScoutingWrite, SlotWrite(n)}

\* work_on lines 228-230: insert(n) and the two drops.
LkScoutingInsert(t) ==
    /\ lkPc[t] = "sc_insert"
    /\ lkScouting' = lkScouting \cup {lkIdx[t]}
    /\ lkHeld' = [lkHeld EXCEPT ![t] = AfterInsert(@, lkIdx[t])]
    /\ lkPc' = [lkPc EXCEPT ![t] = "make"]
    /\ UNCHANGED <<lkCfg, lkTask, lkPos, lkIdx, lkRet, lkStopped,
                   lkConnected, rankVars, fillVars, tgVars, hiveVars, ctorVars, wcVars>>

\* work_on line 232: new_candidate (context.make and evaluate_fitness).
LkMake(t) ==
    /\ lkPc[t] = "make"
    /\ lkPc' = [lkPc EXCEPT ![t] = "relock"]
    /\ UNCHANGED <<lkHeld, lkCfg, lkTask, lkPos, lkIdx, lkRet, lkScouting,
                   lkStopped, lkConnected, rankVars, fillVars, tgVars, hiveVars,
                   ctorVars, wcVars>>

\* work_on lines 233-234: self.working[n].write() again and the install.
LkRelock(t) ==
    /\ lkPc[t] = "relock"
    /\ Lock(t, "ci_lock")
    /\ lkRet' = [lkRet EXCEPT ![t] = "install"]
    /\ UNCHANGED <<lkCfg, lkTask, lkPos, lkIdx, lkScouting, lkStopped,
                   lkConnected, rankVars, fillVars, tgVars, hiveVars, ctorVars, wcVars>>

\* consider_improvement line 200: self.best.lock().
LkBestLock(t) ==
    /\ lkPc[t] = "ci_lock"
    /\ Lock(t, "ci_best")
    /\ LockFrame

\* The return of consider_improvement to work_on: its guards go out of
\* scope; at line 222 work_on returns too and drops the slot's write
\* guard, at line 236 it drops the write guard and goes on to line 238.
LkReturn(t) ==
    /\ lkHeld' = [lkHeld EXCEPT ![t] = {}]
    /\ lkPc' = [lkPc EXCEPT ![t] = IF lkRet[t] = "improve" THEN "loop"
                                   ELSE "sc_remove"]
    /\ lkRet' = [lkRet EXCEPT ![t] = "none"]

\* consider_improvement lines 201-203 and 211-212: not fitter than Best, or
\* fitter and no sender: return; fitter with a sender: on to its lock.
LkBestCompare(t) ==
    /\ lkPc[t] = "ci_best"
    /\ \/ LkReturn(t)
       \/ /\ lkCfg.streaming
          /\ lkPc' = [lkPc EXCEPT ![t] = "ci_sender"]
          /\ UNCHANGED <<lkHeld, lkRet>>
    /\ UNCHANGED <<lkCfg, lkTask, lkPos, lkIdx, lkScouting, lkStopped,
                   lkConnected, rankVars, fillVars, tgVars, hiveVars, ctorVars, wcVars>>

\* consider_improvement line 205: mutex.lock() on the sender.
LkSenderLock(t) ==
    /\ lkPc[t] = "ci_sender"
    /\ Lock(t, "ci_send")
    /\ LockFrame

\* consider_improvement lines 207-208: send; it fails when the receiver
\* was dropped, and then stop() is called with all guards held.
LkSend(t) ==
    /\ lkPc[t] = "ci_send"
    /\ IF lkConnected
       THEN LkReturn(t)
       ELSE /\ lkPc' = [lkPc EXCEPT ![t] = "ci_stop"]
            /\ UNCHANGED <<lkHeld, lkRet>>
    /\ UNCHANGED <<lkCfg, lkTask, lkPos, lkIdx, lkScouting, lkStopped,
                   lkConnected, rankVars, fillVars, tgVars, hiveVars, ctorVars, wcVars>>

\* stop line 356, called from consider_improvement: self.tasks.lock().
LkStopLock(t) ==
    /\ lkPc[t] = "ci_stop"
    /\ Lock(t, "ci_stopping")
    /\ LockFrame

\* stop line 357 and the return through consider_improvement.
LkStopDone(t) ==
    /\ lkPc[t] = "ci_stopping"
    /\ lkStopped' = TRUE
    /\ LkReturn(t)
    /\ UNCHANGED <<lkCfg, lkTask, lkPos, lkIdx, lkScouting, lkConnected,
                   rankVars, fillVars, tgVars, hiveVars, ctorVars, wcVars>>

\* work_on lines 238-242: self.scouting.write(), remove(&n); the guard goes
\* out of scope as work_on returns.
LkScoutingRemove(t) ==
    /\ lkPc[t] = "sc_remove"
    /\ \A g \in Wanted(t) : CanLock(g)
    /\ lkScouting' = lkScouting \ {lkIdx[t]}
    /\ lkPc' = [lkPc EXCEPT ![t] = "loop"]
    /\ UNCHANGED <<lkHeld, lkCfg, lkTask, lkPos, lkIdx, lkRet, lkStopped,
                   lkConnected, rankVars, fillVars, tgVars, hiveVars, ctorVars, wcVars>>

\* The consumer drops the Receiver of the stream.
LkDisconnect ==
    /\ lkConnected
    /\ lkConnected' = FALSE
    /\ UNCHANGED <<lkCfg, lkPc, lkHeld, lkTask, lkPos, lkIdx, lkRet,
                   lkScouting, lkStopped, rankVars, fillVars, tgVars, hiveVars,
                   ctorVars, wcVars>>

\* stop() called on the running hive from outside the worker threads.
LkStop ==
    /\ ~lkCfg.streaming
    /\ ~lkStopped
    /\ CanLock(TasksGuard)
    /\ lkStopped' = TRUE
    /\ UNCHANGED <<lkCfg, lkPc, lkHeld, lkTask, lkPos, lkIdx, lkRet,
                   lkScouting, lkConnected, rankVars, fillVars, tgVars, hiveVars,
                   ctorVars, wcVars>>

LkThreadStep(t) ==
    \/ LkLoopLock(t)
    \/ LkLoopNext(t)
    \/ LkSnapLock(t)
    \/ LkSnapClone(t)
    \/ LkScoutingRead(t)
    \/ LkCheck(t)
    \/ LkChoose(t)
    \/ LkExplore(t)
    \/ LkWriteLock(t)
    \/ LkCompare(t)
    \/ LkScoutingLock(t)
    \/ LkScoutingInsert(t)
    \/ LkMake(t)
    \/ LkRelock(t)
    \/ LkBestLock(t)
    \/ LkBestCompare(t)
    \/ LkSenderLock(t)
    \/ LkSend(t)
    \/ LkStopLock(t)
    \/ LkStopDone(t)
    \/ LkScoutingRemove(t)

NextLock ==
    \/ \E t \in Threads : LkThreadStep(t)
    \/ LkDisconnect
    \/ LkStop

LockSpec == InitLock /\ [][NextLock]_vars

(***************************************************************************)
(* SpecFill: Hive::new.  hive.threads threads fill the population, one     *)
(* candidate for each token of 0..hive.workers; then the hive is built.    *)
(* The retry limit is any usize.                                           *)
(***************************************************************************)
FillThreads == 1..flBuilder.threads

InitFill ==
    /\ \E w \in 1..MaxWorkers, n \in 1..MaxThreads,
          h \in {0, 1}, l \in 0..MaxRetries :
          flBuilder = [workers |-> w, retries |-> [hi |-> h, lo |-> l],
                       threads |-> n]
    /\ flTokens = [start |-> 0, end |-> flBuilder.workers]
    /\ flCands = << >>
    /\ flPc = [t \in Threads |-> IF t \in FillThreads THEN "take" ELSE "absent"]
    /\ flHive = NotBuilt
    /\ tg = TGNew(1, 0) /\ gathered = << >> /\ tgLast = NoTask
    /\ HiveUnused
    /\ ctor = "hive"
    /\ ctorArg = [kind |-> "HiveBuilder", workers |-> 1, observers |-> 0]
    /\ WCUnused
    /\ RankUnused
    /\ LockUnused

\* Mutant: next() hands out a token without advancing the range.
RangeNext_NoAdvance(r) == r

\* Range::next on a range that is not empty: start moves up by one.
RangeNext(r) == [r EXCEPT !.start = @ + 1]

\* Hive::new lines 120-123: tokens.lock(), guard.next(); the guard is
\* dropped before the loop body.
FillTake(t) ==
    /\ flPc[t] = "take"
    /\ IF flTokens.start < flTokens.end
       THEN /\ flTokens' = RangeNext(flTokens)
            /\ flPc' = [flPc EXCEPT ![t] = "make"]
       ELSE /\ flTokens' = flTokens
            /\ flPc' = [flPc EXCEPT ![t] = "done"]
    /\ UNCHANGED <<flBuilder, flCands, flHive, rankVars, lockVars, tgVars,
                   hiveVars, ctorVars, wcVars>>

\* Hive::new lines 124-125: new_candidate (fitness f), candidates.lock(),
\* push.
FillPush(t) ==
    /\ flPc[t] = "make"
    /\ \E f \in FitVals : flCands' = Append(flCands, f)
    /\ flPc' = [flPc EXCEPT ![t] = "take"]
    /\ UNCHANGED <<flBuilder, flTokens, flHive, rankVars, lockVars, tgVars,
                   hiveVars, ctorVars, wcVars>>

\* Hive::new lines 144-152: fold1 keeps the first of the fittest.
RECURSIVE Fold1Best(_)
Fold1Best(cands) ==
    IF Len(cands) = 1 THEN cands[1]
    ELSE LET b == Fold1Best(SubSeq(cands, 1, Len(cands) - 1))
         IN IF cands[Len(cands)] > b THEN cands[Len(cands)] ELSE b

\* Hive::new lines 133-169: the threads are joined, Best is cloned from
\* the fittest candidate, each candidate is wrapped with the retry limit.
FillBuild ==
    /\ ~flHive.built
    /\ \A t \in FillThreads : flPc[t] = "done"
    /\ flHive' = [built |-> TRUE,
                  working |-> [i \in 1..Len(flCands) |->
                                 WorkingCandidateNew(flCands[i], flBuilder.retries)],
                  best |-> Fold1Best(flCands),
                  scouting |-> {},
                  tasks |-> [some |-> FALSE, gen |-> TGNew(1, 0)]]
    /\ UNCHANGED <<flBuilder, flTokens, flCands, flPc, rankVars, lockVars,
                   tgVars, hiveVars, ctorVars, wcVars>>

NextFill ==
    \/ \E t \in Threads : FillTake(t)
    \/ \E t \in Threads : FillPush(t)
    \/ FillBuild

SpecFill == InitFill /\ [][NextFill]_vars

(***************************************************************************)
(* SpecRank: one call of rank() or power_rank(k) on a fitness vector.      *)
(***************************************************************************)
RankInputs ==
    UNION {[1..n -> FitVals \cup {NaN}] : n \in 0..MaxRankLen}

InitRank ==
    /\ rkIn \in RankInputs
    /\ rkCall = [fn |-> "none", k |-> 0]
    /\ rkOut = [panicked |-> FALSE, ranks |-> << >>]
    /\ tg = TGNew(1, 0) /\ gathered = << >> /\ tgLast = NoTask
    /\ HiveUnused
    /\ ctor = "hive"
    /\ ctorArg = [kind |-> "HiveBuilder", workers |-> 1, observers |-> 0]
    /\ WCUnused
    /\ LockUnused
    /\ FillUnused

\* The boxed closure power_rank(k) returns, applied to rkIn.
ApplyPowerRank(fn, k) ==
    /\ rkCall.fn = "none"
    /\ rkCall' = [fn |-> fn, k |-> k]
    /\ rkOut' = IF SortPanics(rkIn)
                THEN [panicked |-> TRUE, ranks |-> << >>]
                ELSE [panicked |-> FALSE, ranks |-> PowerRank(k, rkIn)]
    /\ UNCHANGED <<rkIn, lockVars, fillVars, tgVars, hiveVars, ctorVars, wcVars>>

RankCall == ApplyPowerRank("rank", 1)

PowerRankCall(k) == ApplyPowerRank("power_rank", k)

NextRank ==
    \/ RankCall
    \/ \E k \in 1..MaxRankPower : PowerRankCall(k)

SpecRank == InitRank /\ [][NextRank]_vars

(***************************************************************************)
(* SpecTGStop: a TaskGenerator, bounded or not, drained by next() calls    *)
(* while stop() may be called on it at any time.                           *)
(***************************************************************************)
InitTGStop ==
    /\ \E w \in 1..TGMaxWorkers, o \in 0..TGMaxObservers :
          \/ tg = TGNew(w, o)
          \/ \E m \in 0..TGMaxRounds : tg = TGWithMaxRounds(TGNew(w, o), m)
    /\ gathered = << >>
    /\ tgLast = NoTask
    /\ HiveUnused
    /\ ctor = "generator"
    /\ ctorArg = [kind |-> "TaskGenerator", workers |-> tg.workers,
                  observers |-> tg.observers]
    /\ WCUnused
    /\ ExtUnused

\* stop() on the stand-alone generator.
TGStopCall ==
    /\ ~tg.stopped
    /\ tg' = TGStop(tg)
    /\ UNCHANGED <<gathered, tgLast, hiveVars, ctorVars, wcVars, extVars>>

NextTGStop == TGPull \/ TGStopCall

SpecTGStop == InitTGStop /\ [][NextTGStop]_vars

(***************************************************************************)
(* C1                                                                      *)
(***************************************************************************)
\* The k-th task (1-based) of the cyclic sequence W0..W(w-1),O0..O(o-1).
CycleTask(w, o, k) ==
    LET j == (k - 1) % (w + o)
    IN IF j < w THEN Worker(j) ELSE Observer(j - w)

\* C1: for W >= 1, O >= 1, M >= 1 the items returned by successive next()
\* calls are, in order, the cyclic sequence W0..W(W-1),O0..O(O-1); next()
\* returns None only after exactly M*(W+O) of them, and never hands out more.
C1_SchedulerSequence ==
    (tg.observers >= 1 /\ tg.max_rounds.val >= 1) =>
        /\ \A k \in 1..Len(gathered) :
              gathered[k] = CycleTask(tg.workers, tg.observers, k)
        /\ Len(gathered) <= tg.max_rounds.val * (tg.workers + tg.observers)
        /\ tgLast = NoTask /\ tg.stopped =>
              Len(gathered) = tg.max_rounds.val * (tg.workers + tg.observers)
        /\ tg.stopped <=>
              Len(gathered) = tg.max_rounds.val * (tg.workers + tg.observers)

\* The spec's example, drained: W=3, O=2, M=2 gave 10 items and then None.
C1_Witness ==
    /\ tg.workers = 3 /\ tg.observers = 2 /\ tg.max_rounds.val = 2
    /\ Len(gathered) = 10
    /\ tg.stopped
    /\ tgLast = NoTask

(***************************************************************************)
(* C2                                                                      *)
(***************************************************************************)
\* C2: no step of any thread or caller lowers Best's fitness, and the
\* fitness a run_for_rounds call returns is >= what every earlier call on
\* the same hive returned.
C2_BestNeverDecreases ==
    [][ /\ best' >= best
        /\ Len(returned') > Len(returned) =>
              \A k \in 1..Len(returned) : returned'[Len(returned')] >= returned[k]
      ]_vars

\* Two consecutive run_for_rounds calls have returned, the later one a
\* strictly fitter candidate.
C2_Witness ==
    /\ Len(returned) = 2
    /\ returned[2] > returned[1]
    /\ caller = "idle"

(***************************************************************************)
(* C3                                                                      *)
(***************************************************************************)
NoTaskInFlight == \A t \in Threads : task[t] = NoTask

\* C3: when no thread has a task in flight (after construction, between
\* tasks, after a run has been joined), Best's fitness is >= the fitness
\* held in every population slot.
C3_BestDominatesSlots ==
    NoTaskInFlight => \A i \in Slots : best >= working[i].fitness

\* A run has returned after a slot was improved past the initial Best.
C3_Witness ==
    /\ caller = "idle"
    /\ Len(returned) = 1
    /\ NoTaskInFlight
    /\ \E i \in Slots : working[i].fitness = MaxFit /\ working[i].retries = hive.retries
    /\ \E i \in Slots : working[i].fitness < MaxFit

(***************************************************************************)
(* C4                                                                      *)
(***************************************************************************)
AllPulledNone == \A t \in Live : pc[t] = "done"

\* C4: with observers >= 1 and n >= 1, under fair scheduling a
\* run_for_rounds(n) call in progress leads to every worker thread having
\* pulled None from the scheduler, and then to the call having returned.
C4_RunForRoundsTerminates ==
    /\ (caller = "run_for_rounds" /\ hive.observers >= 1) ~> AllPulledNone
    /\ (caller = "run_for_rounds" /\ hive.observers >= 1)
          ~> (caller = "idle" /\ Len(returned) = 1)

(***************************************************************************)
(* C5                                                                      *)
(***************************************************************************)
\* Thread t's step is an Observer task's choose returning an index.
ChooseReturns(t) ==
    pc[t] = "select" /\ task[t].kind = "Observer" /\ pc'[t] = "work"

\* C5 as claimed: choose never returns an index that is in the scouting
\* set it read, whatever that set holds.
C5_NeverReturnsScouting ==
    [][\A t \in Threads : ChooseReturns(t) => idx'[t] \notin scouting]_vars

\* C5 as amended: choose returns an index of the population, and one that is
\* not in the scouting set it read unless every index is in that set.
C5_NeverReturnsScoutingUnlessAll ==
    [][\A t \in Threads : ChooseReturns(t) =>
          /\ idx'[t] \in Slots
          /\ idx'[t] \notin scouting \/ scouting = Slots
      ]_vars

\* choose has returned a slot that is not scouting while another slot is.
C5_Witness ==
    \E t \in Threads :
        /\ pc[t] = "work" /\ task[t].kind = "Observer"
        /\ scouting # {} /\ scouting # Slots
        /\ idx[t] \notin scouting
        /\ \A u \in Threads \ {t} : pc[u] = "scout"

(***************************************************************************)
(* C6                                                                      *)
(***************************************************************************)
\* Thread t found slot n expired and has not yet both installed the
\* regenerated candidate and removed n from the scouting set.
Regenerating(t, n) == pc[t] \in {"scout", "install", "unscout"} /\ idx[t] = n

\* C6: an index is in the scouting set exactly when some thread is
\* regenerating that slot.
C6_ScoutingIffRegenerating ==
    \A n \in Slots : n \in scouting <=> \E t \in Live : Regenerating(t, n)

(***************************************************************************)
(* C7                                                                      *)
(***************************************************************************)
\* Thread t's step is work_on's write to its slot (replacement or deplete).
WorkOnUpdate(t) == pc[t] = "work" /\ pc'[t] # "work"

\* Thread t's step reads slot n into its snapshot.
SnapshotRead(t, n) == pc[t] = "snap" /\ Len(snap[t]) = n /\ snap'[t] # snap[t]

\* C7: while slot n is in the scouting set no thread applies a work_on
\* update to slot n (the claim adds: and none reads slot n into its
\* snapshot).
C7_NoAccessWhileScouting ==
    [][\A t \in Threads :
          /\ WorkOnUpdate(t) => idx[t] \notin scouting
          /\ \A n \in Slots : SnapshotRead(t, n) => n \notin scouting
      ]_vars

\* The update half of C7 alone: the race between execute's check of the
\* scouting set and work_on's write.
C7_NoUpdateWhileScouting ==
    [][\A t \in Threads : WorkOnUpdate(t) => idx[t] \notin scouting]_vars

(***************************************************************************)
(* C8                                                                      *)
(***************************************************************************)
\* C8: every candidate received from the stream's channel is strictly
\* fitter than Best was when stream() was called and strictly fitter than
\* every candidate received before it.
C8_StreamStrictlyImproves ==
    \A i \in 1..Len(chan) :
        /\ streamBase.some /\ chan[i] > streamBase.val
        /\ \A j \in 1..(i - 1) : chan[i] > chan[j]

(***************************************************************************)
(* C9                                                                      *)
(***************************************************************************)
SchedulerStopped == tasks.some /\ tasks.gen.stopped

\* C9: in streaming mode with the consumer gone, a step that improves Best
\* leaves the scheduler stopped; once the scheduler is stopped no thread
\* pulls a new task; and a stopped streaming run leads to the end of the
\* background run.
C9_DisconnectStopsStream ==
    /\ [][(caller = "streaming" /\ sender /\ ~connected /\ best' > best)
             => tasks'.some /\ tasks'.gen.stopped]_vars
    /\ [][SchedulerStopped => pulled' = pulled]_vars
    /\ (caller = "streaming" /\ SchedulerStopped)
          ~> (caller \in {"dropped", "failed"})

\* The background run has ended after an improvement of Best that the
\* disconnected consumer never received.
C9_Witness ==
    /\ caller = "dropped"
    /\ sender /\ ~connected
    /\ Len(chan) > 0 /\ best > chan[Len(chan)]

(***************************************************************************)
(* C10                                                                     *)
(***************************************************************************)
\* stop() has taken effect on the running scheduler (it is stopped before
\* its round bound) and every thread of the run is still alive.
StoppedByCall ==
    /\ caller \in {"run_for_rounds", "run_forever"}
    /\ SchedulerStopped
    /\ tasks.gen.max_rounds.some => tasks.gen.round < tasks.gen.max_rounds.val
    /\ \A t \in Live : pc[t] # "panicked"

\* C10: after stop() has taken effect no thread is handed a task, no task
\* in flight is abandoned, and the run call returns with every task
\* completed and the scouting set emptied.
C10_StopCompletesInFlight ==
    /\ [][StoppedByCall => pulled' = pulled]_vars
    /\ StoppedByCall
          ~> (caller = "idle" /\ NoTaskInFlight /\ scouting = {})

(***************************************************************************)
(* C11                                                                     *)
(***************************************************************************)
\* C11: once the scheduler is stopped, every next() returns None and
\* leaves round, the cursor and stopped as they are, and no item is handed
\* out any more; a stop() call (the only step of a running scheduler that
\* hands out nothing) changes the stopped flag and nothing else.
C11_StoppedIsAbsorbing ==
    [][ /\ tg.stopped =>
              /\ tg' = tg
              /\ gathered' = gathered
              /\ tgLast' = NoTask
        /\ (~tg.stopped /\ gathered' = gathered) =>
              /\ tg' = [tg EXCEPT !.stopped = TRUE]
              /\ tgLast' = tgLast
      ]_vars

\* An unbounded scheduler was stopped by stop() in the middle of a cycle,
\* and a later next() returned None.
C11_Witness ==
    /\ ~tg.max_rounds.some
    /\ tg.stopped
    /\ tg.next # Worker(0)
    /\ Len(gathered) > 0
    /\ tgLast = NoTask

(***************************************************************************)
(* C12                                                                     *)
(***************************************************************************)
\* C12: get_round returns None on a hive that has never been run; while a
\* run is in progress it returns Some(r) with r the scheduler's round
\* counter, which is 0 when the run starts.
C12_GetRound ==
    /\ [](runs = 0 => GetRound = Ok(None))
    /\ [](caller \in {"run_for_rounds", "run_forever"} =>
             tasks.some /\ GetRound = Ok(Some(tasks.gen.round)))
    /\ [][(caller = "idle" /\ caller' \in {"run_for_rounds", "run_forever"})
             => GetRound' = Ok(Some(0))]_vars

\* A run is still in progress after its first round was handed out:
\* get_round returns Some(1).
C12_Witness ==
    /\ caller = "run_for_rounds"
    /\ \E t \in Live : pc[t] \in {"work", "improve"}
    /\ GetRound = Ok(Some(1))

(***************************************************************************)
(* C13                                                                     *)
(***************************************************************************)
\* C13: with observers >= 1, after k tasks have been handed out round is
\* floor(k / (W+O)); round changes only by +1, and only in the next() call
\* that hands out the last Observer task of a cycle.
C13_RoundCountsCycles ==
    /\ [](tg.observers >= 1 =>
             tg.round = Len(gathered) \div (tg.workers + tg.observers))
    /\ [][(tg.observers >= 1 /\ tg'.round # tg.round) =>
             /\ tg'.round = tg.round + 1
             /\ Len(gathered') = Len(gathered) + 1
             /\ tgLast' = Observer(tg.observers - 1)
      ]_vars

\* The last Observer of the second cycle has just been handed out by an
\* unbounded scheduler with two observers: round is 2.
C13_Witness ==
    /\ ~tg.max_rounds.some /\ ~tg.stopped
    /\ tg.observers = 2
    /\ Len(gathered) = 2 * (tg.workers + tg.observers)
    /\ tgLast = Observer(1)
    /\ tg.round = 2

(***************************************************************************)
(* C14                                                                     *)
(***************************************************************************)
\* C14: a scheduler bounded by max_rounds(n), n >= 0, with observers >= 1
\* keeps round <= n, never hands out more than the n*(W+O) tasks of n
\* complete rounds, and has handed out exactly those when it is stopped.
C14_ExactlyNRounds ==
    (tg.max_rounds.some /\ tg.observers >= 1) =>
        /\ tg.round <= tg.max_rounds.val
        /\ Len(gathered) <= tg.max_rounds.val * (tg.workers + tg.observers)
        /\ tg.stopped =>
              Len(gathered) = tg.max_rounds.val * (tg.workers + tg.observers)

(***************************************************************************)
(* C15                                                                     *)
(***************************************************************************)
\* C15: with observers = 0 the installed scheduler hands out
\* Worker(0),...,Worker(W-1),Worker(0),... and never an Observer, its round
\* stays 0, it becomes stopped only by a stop() call (a step in which no
\* thread moves), and a run_for_rounds call ends only once it is stopped.
C15_NoObserversNeverExhausts ==
    /\ []((hive.observers = 0 /\ tasks.some) =>
             /\ \A k \in 1..Len(pulled) : pulled[k] = Worker((k - 1) % hive.workers)
             /\ tasks.gen.round = 0)
    /\ [][(hive.observers = 0 /\ tasks.some /\ ~tasks.gen.stopped
              /\ tasks'.some /\ tasks'.gen.stopped)
             => (pc' = pc /\ pulled' = pulled)]_vars
    /\ [][(hive.observers = 0 /\ caller = "run_for_rounds" /\ caller' # caller)
             => tasks.gen.stopped]_vars

\* A bounded run without observers has wrapped its Worker cycle and is
\* still handing out tasks.
C15_Witness ==
    /\ hive.observers = 0 /\ hive.workers = 2
    /\ caller = "run_for_rounds"
    /\ Len(pulled) = 3 /\ pulled[3] = Worker(0)
    /\ tasks.gen.round = 0 /\ ~tasks.gen.stopped

(***************************************************************************)
(* C16                                                                     *)
(***************************************************************************)
\* C16: a constructor called with workers = 0 ends in a panic, never in a
\* returned value (a scheduler, a builder or an Err), and no scheduler,
\* builder, population, Best, scouting set or scheduler slot exists then.
C16_ZeroWorkersPanics ==
    /\ [](ctorArg.workers = 0 =>
             /\ ctor \in {"pending", "panicked"}
             /\ NothingBuilt)
    /\ [][(ctorArg.workers = 0 /\ ctor = "pending") => ctor' = "panicked"]_vars

\* HiveBuilder::new(context, 0) has panicked.
C16_Witness ==
    /\ ctorArg.kind = "HiveBuilder" /\ ctorArg.workers = 0
    /\ ctor = "panicked"
    /\ NothingBuilt

(***************************************************************************)
(* C17                                                                     *)
(***************************************************************************)
\* C17: a WorkingCandidate constructed with retry limit R, for every
\* R >= 0, is expired after k deplete() calls exactly when k >= R.
C17_ExpiredAfterRDepletes ==
    ~wcPanicked => (Expired(wcand) <=> UsizeLeq(wcLimit, wcCalls))

(***************************************************************************)
(* C18                                                                     *)
(***************************************************************************)
\* C18: in every reachable state every population slot has
\* 0 <= retries <= R, and is expired exactly when retries = 0.
C18_RetriesInRange ==
    \A i \in Slots :
        /\ 0 <= working[i].retries
        /\ working[i].retries <= hive.retries
        /\ Expired(working[i]) <=> working[i].retries = 0

(***************************************************************************)
(* C19                                                                     *)
(***************************************************************************)
\* Thread t found a lock poisoned and returned Err from its closure.
ReturnedErr(t) == pc[t] = "erred"

\* The run call ends in this step (by returning or by unwinding).
RunEnds == Running /\ caller' # caller

\* C19: a thread that found a lock poisoned pulls no further task; the run
\* call ends only when all threads have terminated; and when a thread of
\* the run found a lock poisoned, the run call returns Err with the
\* scheduler slot reset to empty.
C19_PoisonFailsRunCleanly ==
    /\ [][\A t \in Live : ReturnedErr(t) => pc'[t] \in {"erred", "idle"}]_vars
    /\ [][RunEnds => \A t \in Live : Ended(t)]_vars
    /\ [][(RunEnds /\ \E t \in Live : ReturnedErr(t)) =>
             /\ caller' = "error"
             /\ tasks' = NoTasks]_vars

(***************************************************************************)
(* C20                                                                     *)
(***************************************************************************)
\* C20: once a call has returned Err because Best's lock was found
\* poisoned, the lock is recovered: a get() made then succeeds.
C20_PoisonedLockRecovered ==
    caller = "error" => Get.ok

\* What the code does instead: a poisoned lock stays poisoned.
C20_PoisonIsSticky ==
    [][poisoned \subseteq poisoned']_vars


(***************************************************************************)
(* C21: for every fitness vector of totally ordered values (no NaN) of     *)
(* length N, rank() returns a weight vector of the same length that is a   *)
(* permutation of 1..N, in which a smaller fitness has a smaller weight    *)
(* (lowest 1, highest N) and equal fitnesses are ranked in index order.    *)
(***************************************************************************)
TotallyOrdered(fitnesses) == \A i \in 1..Len(fitnesses) : fitnesses[i] # NaN

C21_RankIsStablePermutation ==
    (rkCall.fn = "rank" /\ TotallyOrdered(rkIn)) =>
        /\ ~rkOut.panicked
        /\ Len(rkOut.ranks) = Len(rkIn)
        /\ {rkOut.ranks[i] : i \in 1..Len(rkIn)} = 1..Len(rkIn)
        /\ \A i, j \in 1..Len(rkIn) :
              /\ rkIn[i] < rkIn[j] => rkOut.ranks[i] < rkOut.ranks[j]
              /\ (rkIn[i] = rkIn[j] /\ i < j) => rkOut.ranks[i] < rkOut.ranks[j]

\* rank() has ranked a vector with a tie around a smaller fitness.
C21_Witness ==
    /\ rkCall.fn = "rank"
    /\ rkIn = <<1, 0, 1>>
    /\ rkOut = [panicked |-> FALSE, ranks |-> <<2, 1, 3>>]

(***************************************************************************)
(* C22: work_on(n) compares the variant with the fitness the slot holds    *)
(* when its write lock is taken.  A strictly greater variant replaces the  *)
(* slot's candidate, with retries = R, and is offered to Best; any other   *)
(* leaves the candidate as it is and takes exactly 1 off retries.          *)
(***************************************************************************)
\* The i32 n is the usize u.
UsizeIs(u, n) == u.hi = 0 /\ u.lo = n

\* C22 on a slot with any usize retry limit R: a work_on comparison either
\* returns having put a strictly fitter candidate with retries = R, or
\* returns having left the candidate and taken 1 off retries.
C22_WorkOnReplacesOrDepletes ==
    [][(~wcScouting /\ ~wcPanicked) =>
          /\ ~wcPanicked'
          /\ IF wcand'.fitness > wcand.fitness
             THEN UsizeIs(wcLimit, wcand'.retries)
             ELSE /\ wcand'.fitness = wcand.fitness
                  /\ wcand.retries # I32Min
                  /\ wcand'.retries = wcand.retries - 1]_vars

\* C22 in the running hive, retry limits 0..MaxRetries: the comparison is
\* with the slot as it is at the write (working, not the snapshot), a
\* replacement has retries = R and goes on to consider_improvement, which
\* offers it to Best.
C22_WorkOnInHive ==
    [][\A t \in Threads :
          /\ (pc[t] = "work" /\ pc'[t] # "work") =>
                IF working'[idx[t]].fitness > working[idx[t]].fitness
                THEN /\ working'[idx[t]].retries = hive.retries
                     /\ pc'[t] = "improve"
                ELSE /\ working'[idx[t]].fitness = working[idx[t]].fitness
                     /\ working'[idx[t]].retries = working[idx[t]].retries - 1
                     /\ pc'[t] # "improve"
          /\ (pc[t] = "improve" /\ pc'[t] # "improve") =>
                best' = BestAfter(working[idx[t]].fitness, best)]_vars

(***************************************************************************)
(* C23: for R >= 1 a slot is regenerated exactly when it has had R         *)
(* non-improving work_on attempts in a row since its candidate was last    *)
(* replaced, never earlier, and the regenerated slot has retries = R.      *)
(* retries is set to R by every replacement and loses 1 by every           *)
(* non-improving attempt, so the attempts since the last replacement are   *)
(* R - retries.                                                            *)
(***************************************************************************)
AttemptsSinceReplaced(n) == hive.retries - working[n].retries

C23_RegeneratedAfterRAttempts ==
    [][hive.retries >= 1 =>
         \A t \in Threads :
            \* the R-th attempt in a row starts a regeneration
            /\ (pc[t] = "work" /\ pc'[t] # "work"
                    /\ working'[idx[t]].fitness = working[idx[t]].fitness) =>
                  (pc'[t] = "scout" <=>
                      hive.retries - working'[idx[t]].retries = hive.retries)
            \* a regenerated candidate is written only over a slot that
            \* has had exactly R such attempts, and starts with retries = R
            /\ (pc[t] = "scout" /\ pc'[t] = "install") =>
                  /\ AttemptsSinceReplaced(idx[t]) = hive.retries
                  /\ working'[idx[t]].retries = hive.retries]_vars

(***************************************************************************)
(* C24: executing a Worker(n) task while n is in the scouting set is a     *)
(* no-op: work_on (and so explore) is not called, and every slot's         *)
(* candidate and retries, Best, the scouting set and the scheduler are     *)
(* left unchanged.                                                         *)
(***************************************************************************)
\* Thread t is in execute at the scouting check with a scouting Worker(n).
AtCheckOfScoutingWorker(t) ==
    /\ pc[t] = "select"
    /\ task[t].kind = "Worker"
    /\ task[t].n \in scouting

C24_ScoutingWorkerIsNoop ==
    [][\A t \in Threads :
          (AtCheckOfScoutingWorker(t) /\ pc'[t] # pc[t]) =>
              /\ pc'[t] = "pull"
              /\ UNCHANGED <<working, best, scouting, tasks, chan>>]_vars

\* A thread is at the check with Worker(n) while another thread is
\* regenerating slot n.
C24_Witness ==
    \E t, u \in Live :
        /\ t # u
        /\ AtCheckOfScoutingWorker(t)
        /\ pc[u] \in {"scout", "install", "unscout"}
        /\ idx[u] = task[t].n

(***************************************************************************)
(* C25: a thread holds no lock at all while it is inside make/evaluate of  *)
(* a scout regeneration or inside explore/evaluate of work_on, so another  *)
(* thread can take slot n's lock while slot n is being regenerated.        *)
(***************************************************************************)
InCollaborator(t) == lkPc[t] \in {"explore", "make"}

C25_NoLockInCollaborator ==
    \A t \in Threads :
        InCollaborator(t) =>
            /\ lkHeld[t] = {}
            /\ (\A u \in Threads \ {t} : SlotWrite(lkIdx[t]) \notin lkHeld[u]
                                          /\ SlotRead(lkIdx[t]) \notin lkHeld[u])
                  => CanLock(SlotWrite(lkIdx[t]))

\* One thread is in new_candidate for slot n while another holds slot n's
\* write guard.
C25_Witness ==
    \E t, u \in Threads :
        /\ lkPc[t] = "make"
        /\ lkIdx[t] \in lkScouting
        /\ SlotWrite(lkIdx[t]) \in lkHeld[u]

(***************************************************************************)
(* C26: for every vector of non-negative weights and every scouting set,   *)
(* choose returns an index of the population without failing: when some    *)
(* index is not scouting, the first non-scouting index whose cumulative    *)
(* weight (over the non-scouting indices) exceeds a draw from [0, total);  *)
(* when every index is scouting, some index of the population.             *)
(***************************************************************************)
\* Thread t's step is the end of an Observer task's call of choose.
ChooseEnds(t) ==
    pc[t] = "select" /\ task[t].kind = "Observer" /\ pc'[t] # "select"

\* i is what the claim lets choose return for weights w and scouting set sc.
ClaimedChoice(w, sc, i) ==
    IF NotScouting(w, sc) = {}
    THEN i \in 0..(Len(w) - 1)
    ELSE \E d \in 0..(RunningTotal(w, sc, Len(w) - 1) - 1) :
            /\ i \in NotScouting(w, sc)
            /\ RunningTotal(w, sc, i) > d
            /\ \A j \in NotScouting(w, sc) :
                  RunningTotal(w, sc, j) > d => i <= j

C26_ChooseReturnsIndex ==
    [][\A t \in Threads :
          ChooseEnds(t) =>
              /\ pc'[t] = "work"
              /\ ClaimedChoice(Proportionate(snap[t]), scouting, idx'[t])]_vars

\* What is left of C26 when the weights that are not scouting do not all
\* vanish: with a positive total choose does return as claimed.
C26_ChooseWithPositiveTotal ==
    [][\A t \in Threads :
          (ChooseEnds(t)
             /\ (NotScouting(snap[t], scouting) # {} =>
                   RunningTotal(Proportionate(snap[t]), scouting,
                                Len(snap[t]) - 1) > 0)) =>
              /\ pc'[t] = "work"
              /\ ClaimedChoice(Proportionate(snap[t]), scouting, idx'[t])]_vars

(***************************************************************************)
(* C27: for every W >= 1 and T >= 1 the parallel fill of Hive::new uses    *)
(* each of the W tokens exactly once, so the hive it builds has exactly W  *)
(* slots, each with retries = R, Best a fittest of the W candidates, an    *)
(* empty scouting set and an empty scheduler slot.                         *)
(***************************************************************************)
\* Every token handed out so far is a candidate pushed or being made.
TokensUsedOnce ==
    flTokens.start = Len(flCands)
                       + Cardinality({t \in FillThreads : flPc[t] = "make"})

\* The built hive without its retry counters.
BuiltPopulation ==
    /\ Len(flHive.working) = flBuilder.workers
    /\ \A i \in 1..Len(flHive.working) : flHive.best >= flHive.working[i].fitness
    /\ \E i \in 1..Len(flHive.working) : flHive.best = flHive.working[i].fitness
    /\ flHive.scouting = {}
    /\ ~flHive.tasks.some

C27_FillBuildsPopulation ==
    /\ TokensUsedOnce
    /\ flHive.built =>
          /\ BuiltPopulation
          /\ \A i \in 1..Len(flHive.working) :
                UsizeIs(flBuilder.retries, flHive.working[i].retries)

\* C27 without "retries = R": the fill itself is as claimed for every
\* retry limit.
C27_FillWithoutRetries ==
    /\ TokensUsedOnce
    /\ flHive.built => BuiltPopulation

(***************************************************************************)
(* C28: in streaming mode the candidates pushed to the channel are, in     *)
(* order, Best as it is when the sender is attached, then exactly the      *)
(* successive values Best takes, each pushed in the critical section that  *)
(* replaces Best: the received fitnesses are strictly increasing and,      *)
(* while the consumer is connected, no update of Best is lost or           *)
(* reordered.                                                              *)
(***************************************************************************)
Attached == sender /\ connected

C28_PushUnderBestLock ==
    \A t \in Threads :
        lkPc[t] \in {"ci_send", "ci_stop", "ci_stopping"} =>
            {BestGuard, SenderGuard} \subseteq lkHeld[t]

(***************************************************************************)
(* C29: the run is deadlock-free.  Locks are nested only in the orders     *)
(* slot -> scouting set and slot -> Best -> sender -> scheduler; the       *)
(* scheduler lock is never held while another lock is requested; a thread  *)
(* holds at most one slot lock; so in no reachable state is every live     *)
(* thread blocked on a lock, stop() called from inside                     *)
(* consider_improvement included.                                          *)
(***************************************************************************)
\* A thread that holds guard h may request guard g.
MayNest(h, g) ==
    \/ h.l = "slot" /\ g.l \in {"scouting", "best", "sender", "tasks"}
    \/ h.l = "best" /\ g.l \in {"sender", "tasks"}
    \/ h.l = "sender" /\ g.l = "tasks"

\* Thread t waits for a lock it cannot be given now.
Blocked(t) == \E g \in Wanted(t) : ~CanLock(g)

LkLive == {t \in Threads : lkPc[t] \notin {"absent", "done", "panicked"}}

C29_DeadlockFree ==
    /\ [](\A t \in Threads :
             /\ \A g \in Wanted(t) : \A h \in lkHeld[t] : MayNest(h, g)
             /\ Cardinality({h \in lkHeld[t] : h.l = "slot"}) <= 1)
    /\ [](LkLive # {} => \E t \in LkLive : ~Blocked(t))
    /\ [][\A t \in Threads :
             \A g \in lkHeld'[t] \ lkHeld[t] :
                \A h \in lkHeld[t] : MayNest(h, g)]_vars

\* stop() runs inside consider_improvement, four guards deep, while every
\* other thread of the run waits for one of those guards.
C29_Witness ==
    \E t \in LkLive :
        /\ lkPc[t] = "ci_stopping"
        /\ lkHeld[t] = {SlotWrite(lkIdx[t]), BestGuard, SenderGuard, TasksGuard}
        /\ LkLive # {t}
        /\ \A u \in LkLive \ {t} : Blocked(u)

(***************************************************************************)
(* C30: in a run with T threads on one scheduler every task the scheduler  *)
(* produces goes to exactly one thread, none twice and none skipped: the   *)
(* tasks pulled, in the order the scheduler lock was taken, are the        *)
(* scheduler's cyclic sequence, and every Worker index is in 0..W-1.       *)
(***************************************************************************)
\* The step hands a task to thread t.
Receives(t) == task'[t] # task[t] /\ task'[t] # NoTask

C30_EachTaskToOneThread ==
    /\ [](\A k \in 1..Len(pulled) :
             /\ pulled[k] = CycleTask(hive.workers, hive.observers, k)
             /\ pulled[k].kind = "Worker" => pulled[k].n \in Slots)
    /\ [][\A t \in Threads :
             Receives(t) =>
                /\ pc[t] = "pull"
                /\ pulled' = Append(pulled, task'[t])
                /\ \A u \in Threads \ {t} : task'[u] = task[u]]_vars
    /\ [][(pulled' # pulled /\ pulled' # << >>) =>
             \E t \in Live : Receives(t)]_vars

\* Two threads have shared three tasks: one got the first and the third,
\* the other the second.
C30_Witness ==
    /\ hive.threads = 2
    /\ Len(pulled) = 3
    /\ task[1] = pulled[3]
    /\ task[2] = pulled[2]
    /\ pulled[2] # pulled[3]

(***************************************************************************)
(* C31: the fitness held in a population slot never decreases except at    *)
(* the step that installs a scout-regenerated candidate: every other write *)
(* to a slot strictly increases its fitness or changes only retries.  The  *)
(* install is unconditional and may overwrite a fitter candidate another   *)
(* thread put in the slot during the regeneration.                         *)
(***************************************************************************)
\* The step is thread t's write of a regenerated candidate into slot n.
RegenerationInstall(t, n) ==
    pc[t] = "scout" /\ pc'[t] = "install" /\ idx[t] = n

C31_FitnessDropsOnlyAtInstall ==
    [][\A n \in Slots :
          /\ working'[n].fitness < working[n].fitness =>
                \E t \in Live : RegenerationInstall(t, n)
          /\ (working'[n] # working[n]
                 /\ ~\E t \in Live : RegenerationInstall(t, n)) =>
                \/ working'[n].fitness > working[n].fitness
                \/ /\ working'[n].fitness = working[n].fitness
                   /\ working'[n].retries # working[n].retries
          /\ \A t \in Live : RegenerationInstall(t, n) =>
                working'[n].retries = hive.retries]_vars

\* While thread t regenerates slot n (it has released the slot and not yet
\* written the new candidate), thread u has put a fitter candidate in the
\* slot; t's install comes next and is not compared with it.
C31_Witness ==
    \E t, u \in Live :
        /\ pc[t] = "scout" /\ pc[u] = "improve"
        /\ idx[t] = idx[u]
        /\ idx[t] \in scouting
        /\ working[idx[t]].fitness > 0
        /\ working[idx[t]].retries = hive.retries
====
